---- MODULE Spec2Model ----
(***************************************************************************)
(* State-machine model of backend/main.py: the transcript store, the       *)
(* email-log store and the HTTP handlers that read and write them.         *)
(* Every handler is cut at its awaited store calls, so that concurrent     *)
(* requests interleave exactly where the event loop lets them.             *)
(***************************************************************************)
EXTENDS Integers, Sequences, FiniteSets, TLC

\* ---------------------------------------------------------------- bounds
MaxTranscripts      == 2   \* transcripts created where the store is studied
MaxLogs             == 2   \* send-email requests admitted where email is studied
MaxRecipients       == 2   \* longest recipient list where email is studied
EmailMaxTranscripts == 1   \* transcripts created where email is studied
StoreMaxLogs        == 1   \* send-email requests admitted where delete is studied
StoreMaxRecipients  == 1   \* longest recipient list where delete is studied

\* ------------------------------------------------------ values and inputs
None   == "<None>"      \* Python None in a text field
NoTime == "<NoTime>"    \* Python None in a datetime field
Now    == "<utcnow>"    \* a reading of datetime.utcnow(); readings are not told apart

Reqs        == {"r1", "r2"}          \* handlers suspended at the same time
OneReq      == {"r1"}
Titles      == {"T"}
Texts       == {"X"}
Prompts     == {"P"}
GeminiTexts == {"G"}                  \* response.text of the generation API
EditTexts   == {"", "E"}              \* TranscriptUpdate.edited_summary
AddrPool    == <<"a", "b", "c">>      \* EmailStr values, in the order requested
Subjects    == {"Meeting Summary"}
SmtpError   == "Failed to send email via SMTP"

\* EmailRequest.recipients: the lists of up to n distinct addresses
RecipientLists(n) == {SubSeq(AddrPool, 1, k) : k \in 0 .. n}

\* the truth value Python gives to an optional text (None and "" are falsy)
Truthy(x) == x # None /\ x # ""

\* a or b
PyOr(a, b) == IF Truthy(a) THEN a ELSE b

\* send_email without its `if not summary_to_send` check
NoSummary_unchecked(summary_to_send) == FALSE

\* if not summary_to_send: raise HTTPException(status_code=400, ...)
NoSummary(summary_to_send) == ~Truthy(summary_to_send)

VARIABLES
    transcripts,    \* db.transcripts: id -> document
    email_logs,     \* db.email_logs: documents in insertion order
    nextId,         \* the next uuid4 handed to a transcript
    req,            \* the handlers suspended at an awaited store call
    last            \* the request that returned last: its locals and response

vars == <<transcripts, email_logs, nextId, req, last>>

NoDoc == [id |-> 0, title |-> None, original_text |-> None, custom_prompt |-> None,
          generated_summary |-> None, edited_summary |-> None,
          created_at |-> NoTime, updated_at |-> NoTime]

NoResp == [status |-> 0, detail |-> None, doc |-> NoDoc, summary |-> None,
           recipients |-> <<>>, subject |-> None, sent_emails |-> <<>>,
           failed_emails |-> <<>>, has_failed_emails |-> FALSE]

\* a handler's locals; attempts lists the send_email_smtp calls it made,
\* logWrites counts its email_logs.insert_one calls
IdleReq == [op |-> "idle", pc |-> "idle", tid |-> 0, transcript |-> NoDoc,
            edited |-> None, recipients |-> <<>>, subject |-> None,
            sent_emails |-> <<>>, failed_emails |-> <<>>,
            attempts |-> <<>>, logWrites |-> 0, logFailed |-> FALSE,
            storeErr |-> FALSE, missing |-> FALSE, resp |-> NoResp]

Free(r) == req[r].pc = "idle"

\* raise HTTPException(status_code, detail)
HTTPException(status_code, detail) ==
    [NoResp EXCEPT !.status = status_code, !.detail = detail]

\* db.transcripts.find_one({"id": transcript_id})
find_one(tid) == IF tid \in DOMAIN transcripts THEN transcripts[tid] ELSE NoDoc

\* db.transcripts.insert_one(doc)
insert_transcript(doc) ==
    [t \in DOMAIN transcripts \cup {doc.id} |->
        IF t = doc.id THEN doc ELSE transcripts[t]]

\* db.transcripts.delete_one({"id": transcript_id})
delete_one(tid) == [t \in DOMAIN transcripts \ {tid} |-> transcripts[t]]

\* the update written as a replacement document instead of a $set
update_one_replace(tid, field, value) ==
    [t \in DOMAIN transcripts |->
        IF t = tid
        THEN [NoDoc EXCEPT !.id = tid, ![field] = value, !.updated_at = Now]
        ELSE transcripts[t]]

\* db.transcripts.update_one({"id": transcript_id}, {"$set": {field: value,
\* "updated_at": datetime.utcnow()}}): matched by id when it runs, no upsert
update_one(tid, field, value) ==
    [t \in DOMAIN transcripts |->
        IF t = tid
        THEN [transcripts[t] EXCEPT ![field] = value, !.updated_at = Now]
        ELSE transcripts[t]]

Init ==
    /\ transcripts = <<>>
    /\ email_logs = <<>>
    /\ nextId = 1
    /\ req = [r \in Reqs |-> IdleReq]
    /\ last = IdleReq

\* POST /api/transcripts
create_transcript(title, original_text, custom_prompt, ok) ==
    /\ LET transcript_doc ==
               [id |-> nextId, title |-> title, original_text |-> original_text,
                custom_prompt |-> custom_prompt, generated_summary |-> None,
                edited_summary |-> None, created_at |-> Now, updated_at |-> NoTime]
           me == [IdleReq EXCEPT !.op = "create", !.pc = "done", !.tid = nextId]
       IN  /\ nextId' = nextId + 1
           /\ IF ok
              THEN /\ transcripts' = insert_transcript(transcript_doc)
                   /\ last' = [me EXCEPT !.resp = [NoResp EXCEPT !.status = 200,
                                                                 !.doc = transcript_doc]]
              ELSE /\ transcripts' = transcripts
                   /\ last' = [me EXCEPT !.storeErr = TRUE,
                                         !.resp = HTTPException(500, "Database error")]
    /\ UNCHANGED <<email_logs, req>>

\* GET /api/transcripts/{transcript_id}
get_transcript(transcript_id, ok) ==
    /\ LET transcript == find_one(transcript_id)
           me == [IdleReq EXCEPT !.op = "get", !.pc = "done", !.tid = transcript_id]
       IN  last' =
               IF ~ok
               THEN [me EXCEPT !.storeErr = TRUE,
                               !.resp = HTTPException(500, "Database error")]
               ELSE IF transcript = NoDoc
               \* the 404 raised inside the try block is caught by the handler's
               \* own `except Exception` and raised again as a 500
               THEN [me EXCEPT !.missing = TRUE,
                               !.resp = HTTPException(500, "Database error")]
               ELSE [me EXCEPT !.transcript = transcript,
                               !.resp = [NoResp EXCEPT !.status = 200,
                                                       !.doc = transcript]]
    /\ UNCHANGED <<transcripts, email_logs, nextId, req>>

\* a delete that also removes the email logs of the transcript
delete_transcript_cascade(transcript_id, ok) ==
    /\ LET deleted_count == IF ok /\ transcript_id \in DOMAIN transcripts THEN 1 ELSE 0
           me == [IdleReq EXCEPT !.op = "delete", !.pc = "done", !.tid = transcript_id]
       IN  /\ transcripts' = IF deleted_count = 1 THEN delete_one(transcript_id)
                                                  ELSE transcripts
           /\ email_logs' = IF deleted_count = 1
                             THEN SelectSeq(email_logs,
                                            LAMBDA l : l.transcript_id # transcript_id)
                             ELSE email_logs
           /\ last' =
                  IF ~ok
                  THEN [me EXCEPT !.storeErr = TRUE,
                                  !.resp = HTTPException(500, "Internal Server Error")]
                  ELSE IF deleted_count = 0
                  THEN [me EXCEPT !.missing = TRUE,
                                  !.resp = HTTPException(404, "Transcript not found")]
                  ELSE [me EXCEPT !.resp = [NoResp EXCEPT !.status = 200,
                                              !.detail = "Transcript deleted successfully"]]
    /\ UNCHANGED <<nextId, req>>

\* DELETE /api/transcripts/{transcript_id}; a store error is not caught by
\* the handler and reaches the client as a server error
delete_transcript(transcript_id, ok) ==
    /\ LET deleted_count == IF ok /\ transcript_id \in DOMAIN transcripts THEN 1 ELSE 0
           me == [IdleReq EXCEPT !.op = "delete", !.pc = "done", !.tid = transcript_id]
       IN  /\ transcripts' = IF deleted_count = 1 THEN delete_one(transcript_id)
                                                  ELSE transcripts
           /\ last' =
                  IF ~ok
                  THEN [me EXCEPT !.storeErr = TRUE,
                                  !.resp = HTTPException(500, "Internal Server Error")]
                  ELSE IF deleted_count = 0
                  THEN [me EXCEPT !.missing = TRUE,
                                  !.resp = HTTPException(404, "Transcript not found")]
                  ELSE [me EXCEPT !.resp = [NoResp EXCEPT !.status = 200,
                                              !.detail = "Transcript deleted successfully"]]
    /\ UNCHANGED <<email_logs, nextId, req>>

\* POST /api/transcripts/{transcript_id}/generate-summary, up to the end of
\* `await db.transcripts.find_one`
generate_summary_find(r, transcript_id, ok) ==
    /\ Free(r)
    /\ LET transcript == find_one(transcript_id)
           me == [IdleReq EXCEPT !.op = "generate", !.pc = "done",
                                 !.tid = transcript_id]
       IN  IF ~ok
           THEN /\ last' = [me EXCEPT !.storeErr = TRUE,
                                      !.resp = HTTPException(500, "Database error")]
                /\ req' = req
           ELSE IF transcript = NoDoc
           \* HTTPException(404) is caught by the outer `except Exception`
           THEN /\ last' = [me EXCEPT !.missing = TRUE,
                                      !.resp = HTTPException(500, "Database error")]
                /\ req' = req
           \* of transcript the handler reads on only original_text and
           \* custom_prompt, which no handler ever changes
           ELSE /\ req' = [req EXCEPT ![r] = [me EXCEPT !.pc = "generate_update"]]
                /\ last' = last
    /\ UNCHANGED <<transcripts, email_logs, nextId>>

\* generate-summary from the Gemini call to the response: summary is the
\* text the API returned, None when generate_summary_with_gemini raised
generate_summary_update(r, summary, ok) ==
    /\ req[r].pc = "generate_update"
    /\ LET me == [req[r] EXCEPT !.pc = "done"]
       IN  IF summary = None
           THEN /\ transcripts' = transcripts
                /\ last' = [me EXCEPT !.resp = HTTPException(500, "Database error")]
           ELSE IF ~ok
           THEN /\ transcripts' = transcripts
                /\ last' = [me EXCEPT !.storeErr = TRUE,
                                      !.resp = HTTPException(500, "Database error")]
           ELSE /\ transcripts' = update_one(req[r].tid, "generated_summary", summary)
                /\ last' = [me EXCEPT !.resp = [NoResp EXCEPT !.status = 200,
                                                              !.summary = summary]]
    /\ req' = [req EXCEPT ![r] = IdleReq]
    /\ UNCHANGED <<email_logs, nextId>>

\* PUT /api/transcripts/{transcript_id}/summary, up to the end of
\* `await db.transcripts.find_one`
update_summary_find(r, transcript_id, edited_summary, ok) ==
    /\ Free(r)
    /\ LET transcript == find_one(transcript_id)
           me == [IdleReq EXCEPT !.op = "update", !.pc = "done",
                                 !.tid = transcript_id, !.edited = edited_summary]
       IN  IF ~ok
           THEN /\ last' = [me EXCEPT !.storeErr = TRUE,
                                      !.resp = HTTPException(500, "Database error")]
                /\ req' = req
           ELSE IF transcript = NoDoc
           \* HTTPException(404) is caught by the outer `except Exception`
           THEN /\ last' = [me EXCEPT !.missing = TRUE,
                                      !.resp = HTTPException(500, "Database error")]
                /\ req' = req
           \* transcript is not read again
           ELSE /\ req' = [req EXCEPT ![r] = [me EXCEPT !.pc = "update_update"]]
                /\ last' = last
    /\ UNCHANGED <<transcripts, email_logs, nextId>>

\* update-summary from `await db.transcripts.update_one` to the response
update_summary_update(r, ok) ==
    /\ req[r].pc = "update_update"
    /\ LET me == [req[r] EXCEPT !.pc = "done"]
       IN  IF ~ok
           THEN /\ transcripts' = transcripts
                /\ last' = [me EXCEPT !.storeErr = TRUE,
                                      !.resp = HTTPException(500, "Database error")]
           ELSE /\ transcripts' = update_one(req[r].tid, "edited_summary", req[r].edited)
                /\ last' = [me EXCEPT !.resp = [NoResp EXCEPT !.status = 200,
                                                  !.detail = "Summary updated successfully"]]
    /\ req' = [req EXCEPT ![r] = IdleReq]
    /\ UNCHANGED <<email_logs, nextId>>

\* the message send_email composes: title, resolved summary, fixed footer
EmailBody(title, summary_to_send) ==
    [heading |-> "Meeting Summary: ", title |-> title, summary |-> summary_to_send,
     footer |-> "This summary was generated by AI Meeting Notes Summarizer"]

\* email_request.subject or f"Meeting Summary: {transcript['title']}"
SubjectUsed(subject, title) ==
    IF Truthy(subject) THEN subject ELSE "Meeting Summary: " \o title

\* the loop leaving at the first recipient whose delivery fails
RECURSIVE deliver_until_failure(_, _, _, _, _, _)
deliver_until_failure(me, recipients, subject, email_body, outcome, i) ==
    IF i > Len(recipients)
    THEN me
    ELSE LET recipient == recipients[i]
             call == [to |-> <<recipient>>, subject |-> subject,
                      body |-> email_body, ok |-> outcome[i]]
             called == [me EXCEPT !.attempts = Append(@, call)]
         IN  IF outcome[i]
             THEN deliver_until_failure(
                      [called EXCEPT !.sent_emails = Append(@, recipient)],
                      recipients, subject, email_body, outcome, i + 1)
             ELSE [called EXCEPT !.failed_emails =
                       Append(@, [email |-> recipient, error |-> SmtpError])]

\* the loop `for recipient in email_request.recipients` from its i-th turn on;
\* outcome[i] tells whether send_email_smtp returns or raises on that turn
RECURSIVE deliver(_, _, _, _, _, _)
deliver(me, recipients, subject, email_body, outcome, i) ==
    IF i > Len(recipients)
    THEN me
    ELSE LET recipient == recipients[i]
             call == [to |-> <<recipient>>, subject |-> subject,
                      body |-> email_body, ok |-> outcome[i]]
             called == [me EXCEPT !.attempts = Append(@, call)]
         IN  IF outcome[i]
             THEN deliver([called EXCEPT !.sent_emails = Append(@, recipient)],
                          recipients, subject, email_body, outcome, i + 1)
             ELSE deliver([called EXCEPT !.failed_emails =
                               Append(@, [email |-> recipient, error |-> SmtpError])],
                          recipients, subject, email_body, outcome, i + 1)

\* the log with `failed` meaning that no recipient was reached
EmailLog_failed_if_none_sent(me) ==
    [id |-> Len(email_logs) + 1,
     transcript_id |-> me.tid,
     recipients |-> me.recipients,
     subject |-> me.subject,
     sent_at |-> Now,
     status |-> IF me.failed_emails = <<>> THEN "sent"
                ELSE IF me.sent_emails = <<>> THEN "failed" ELSE "partial",
     sent_count |-> Len(me.sent_emails),
     failed_count |-> Len(me.failed_emails),
     failed_emails |-> me.failed_emails]

\* the log counting every requested recipient as sent
EmailLog_counts_recipients(me) ==
    [id |-> Len(email_logs) + 1,
     transcript_id |-> me.tid,
     recipients |-> me.recipients,
     subject |-> me.subject,
     sent_at |-> Now,
     status |-> IF me.failed_emails = <<>> THEN "sent" ELSE "partial",
     sent_count |-> Len(me.recipients),
     failed_count |-> Len(me.failed_emails),
     failed_emails |-> me.failed_emails]

\* the email_log document written after the loop
EmailLog(me) ==
    [id |-> Len(email_logs) + 1,
     transcript_id |-> me.tid,
     recipients |-> me.recipients,
     subject |-> me.subject,
     sent_at |-> Now,
     status |-> IF me.failed_emails = <<>> THEN "sent" ELSE "partial",
     sent_count |-> Len(me.sent_emails),
     failed_count |-> Len(me.failed_emails),
     failed_emails |-> me.failed_emails]

\* the email_log document written by the handler's outer except block
FailedEmailLog(me) ==
    [id |-> Len(email_logs) + 1,
     transcript_id |-> me.tid,
     recipients |-> me.recipients,
     subject |-> me.subject,
     sent_at |-> Now,
     status |-> "failed",
     error |-> "store error"]

\* the two return statements at the end of the try block
SendResponse(me) ==
    IF me.failed_emails # <<>>
    THEN [NoResp EXCEPT !.status = 200, !.detail = "Email sent, some failed",
                        !.recipients = me.recipients, !.subject = me.subject,
                        !.sent_emails = me.sent_emails,
                        !.failed_emails = me.failed_emails,
                        !.has_failed_emails = TRUE]
    ELSE [NoResp EXCEPT !.status = 200, !.detail = "Email sent successfully",
                        !.recipients = me.recipients, !.subject = me.subject,
                        !.sent_emails = me.sent_emails]

\* send-email requests that will still write to email_logs
SendsInFlight == {r \in Reqs : req[r].op = "send"}

\* POST /api/transcripts/{transcript_id}/email from `await find_one` to the
\* end of the per-recipient loop (no await in between)
send_email_deliver(r, transcript_id, recipients, subject, outcome, ok) ==
    /\ Free(r)
    /\ LET transcript == find_one(transcript_id)
           me == [IdleReq EXCEPT !.op = "send", !.pc = "done", !.tid = transcript_id,
                                 !.recipients = recipients, !.subject = subject]
           summary_to_send == PyOr(transcript.edited_summary,
                                   transcript.generated_summary)
       IN  IF ~ok
           \* not an HTTPException: the outer except block logs the failure
           THEN /\ req' = [req EXCEPT ![r] = [me EXCEPT !.pc = "send_failed_log",
                                                        !.storeErr = TRUE]]
                /\ last' = last
           ELSE IF transcript = NoDoc
           THEN /\ last' = [me EXCEPT !.missing = TRUE,
                                      !.resp = HTTPException(404, "Transcript not found")]
                /\ req' = req
           ELSE IF NoSummary(summary_to_send)
           THEN /\ last' = [me EXCEPT !.transcript = transcript,
                                      !.resp = HTTPException(400,
                                                   "No summary available to send")]
                /\ req' = req
           ELSE /\ req' = [req EXCEPT ![r] =
                             deliver([me EXCEPT !.pc = "send_log",
                                                !.transcript = transcript],
                                     recipients,
                                     SubjectUsed(subject, transcript.title),
                                     EmailBody(transcript.title, summary_to_send),
                                     outcome, 1)]
                /\ last' = last
    /\ UNCHANGED <<transcripts, email_logs, nextId>>

\* the log write as an upsert keyed by transcript_id
send_email_log_upsert(r, ok) ==
    /\ req[r].pc = "send_log"
    /\ LET me == [req[r] EXCEPT !.pc = "done", !.logWrites = @ + 1,
                                !.logFailed = @ \/ ~ok]
           old == {k \in 1 .. Len(email_logs) :
                      email_logs[k].transcript_id = req[r].tid}
       IN  /\ email_logs' =
                  IF ~ok THEN email_logs
                  ELSE IF old = {} THEN Append(email_logs, EmailLog(req[r]))
                  ELSE [k \in 1 .. Len(email_logs) |->
                           IF k \in old THEN [EmailLog(req[r]) EXCEPT !.id = k]
                                        ELSE email_logs[k]]
           /\ last' = [me EXCEPT !.resp = SendResponse(me)]
    /\ req' = [req EXCEPT ![r] = IdleReq]
    /\ UNCHANGED <<transcripts, nextId>>

\* the log write without its own try block: a failure reaches the outer
\* except block
send_email_log_uncaught(r, ok) ==
    /\ req[r].pc = "send_log"
    /\ LET me == [req[r] EXCEPT !.pc = "done", !.logWrites = @ + 1,
                                !.logFailed = @ \/ ~ok]
       IN  IF ok
           THEN /\ email_logs' = Append(email_logs, EmailLog(req[r]))
                /\ last' = [me EXCEPT !.resp = SendResponse(me)]
                /\ req' = [req EXCEPT ![r] = IdleReq]
           ELSE /\ email_logs' = email_logs
                /\ last' = last
                /\ req' = [req EXCEPT ![r] = [me EXCEPT !.pc = "send_failed_log"]]
    /\ UNCHANGED <<transcripts, nextId>>

\* send-email from `await db.email_logs.insert_one` to the response
send_email_log(r, ok) ==
    /\ req[r].pc = "send_log"
    /\ LET me == [req[r] EXCEPT !.pc = "done", !.logWrites = @ + 1,
                                !.logFailed = @ \/ ~ok]
       IN  /\ email_logs' = IF ok THEN Append(email_logs, EmailLog(req[r]))
                                  ELSE email_logs
           /\ last' = [me EXCEPT !.resp = SendResponse(me)]
    /\ req' = [req EXCEPT ![r] = IdleReq]
    /\ UNCHANGED <<transcripts, nextId>>

\* send-email's outer except block for an error that is no HTTPException
send_email_failed_log(r, ok) ==
    /\ req[r].pc = "send_failed_log"
    /\ LET me == [req[r] EXCEPT !.pc = "done", !.logWrites = @ + 1,
                                !.logFailed = @ \/ ~ok]
       IN  /\ email_logs' = IF ok THEN Append(email_logs, FailedEmailLog(req[r]))
                                  ELSE email_logs
           /\ last' = [me EXCEPT !.resp = HTTPException(500, "Failed to send email")]
    /\ req' = [req EXCEPT ![r] = IdleReq]
    /\ UNCHANGED <<transcripts, nextId>>

\* ------------------------------------------------------ specifications
\* the uuid4 values and the requests a bounded run may use
Admit(maxLogs) == Len(email_logs) + Cardinality(SendsInFlight) < maxLogs

StoreHandlers(slots, maxTranscripts) ==
    \E ok \in BOOLEAN :
        \/ \E title \in Titles, text \in Texts, prompt \in Prompts :
               nextId <= maxTranscripts /\ create_transcript(title, text, prompt, ok)
        \/ \E tid \in 1 .. maxTranscripts : get_transcript(tid, ok)
        \/ \E tid \in 1 .. maxTranscripts : delete_transcript(tid, ok)
        \/ \E r \in slots, tid \in 1 .. maxTranscripts :
               generate_summary_find(r, tid, ok)
        \/ \E r \in slots, summary \in GeminiTexts \cup {None} :
               generate_summary_update(r, summary, ok)
        \/ \E r \in slots, tid \in 1 .. maxTranscripts, edited \in EditTexts :
               update_summary_find(r, tid, edited, ok)
        \/ \E r \in slots : update_summary_update(r, ok)

EmailHandlers(slots, maxTranscripts, maxLogs, maxRecipients) ==
    \E ok \in BOOLEAN :
        \/ \E r \in slots, tid \in 1 .. maxTranscripts,
              recipients \in RecipientLists(maxRecipients), subject \in Subjects :
               \E outcome \in [1 .. Len(recipients) -> BOOLEAN] :
                   /\ Admit(maxLogs)
                   /\ send_email_deliver(r, tid, recipients, subject, outcome, ok)
        \/ \E r \in slots : send_email_log(r, ok)
        \/ \E r \in slots : send_email_failed_log(r, ok)

\* the transcript handlers, two of them suspended at a time
NextStore == StoreHandlers(Reqs, MaxTranscripts)

\* all handlers on one transcript, two of them suspended at a time, with
\* room for several email logs
NextEmail ==
    \/ StoreHandlers(Reqs, EmailMaxTranscripts)
    \/ EmailHandlers(Reqs, EmailMaxTranscripts, MaxLogs, MaxRecipients)

\* all handlers on several transcripts, one of them suspended at a time
Next ==
    \/ StoreHandlers(OneReq, MaxTranscripts)
    \/ EmailHandlers(OneReq, MaxTranscripts, StoreMaxLogs, StoreMaxRecipients)

SpecStore == Init /\ [][NextStore]_vars
SpecEmail == Init /\ [][NextEmail]_vars
Spec == Init /\ [][Next]_vars

\* ---------------------------------------------------------------- claims
\* the send-email handlers the claims look at: suspended or just returned
Sends == {x \in {req[r] : r \in Reqs} \cup {last} : x.op = "send"}

\* the addresses of a list of send_email_smtp calls
Addresses(calls) == [i \in 1 .. Len(calls) |-> calls[i].to[1]]

\* the failed_emails entries of a list of send_email_smtp calls
Failures(calls) ==
    [i \in 1 .. Len(calls) |-> [email |-> calls[i].to[1], error |-> SmtpError]]

BothAbsent(doc) ==
    doc # NoDoc /\ doc.generated_summary = None /\ doc.edited_summary = None

\* C1: a request that names an id the transcript store does not hold is
\* answered with 404 Not Found, whatever the operation.
C1_UnknownIdIsNotFound ==
    last.missing => last.resp.status = 404

\* C2: a send-email request that finds a transcript with neither a generated
\* nor an edited summary returns 400 at once, having called send_email_smtp
\* zero times and written to email_logs zero times.
C2_NoSummaryNoSendNoLog ==
    \A x \in Sends :
        BothAbsent(x.transcript) =>
            /\ x.pc = "done"
            /\ x.resp.status = 400
            /\ x.attempts = <<>>
            /\ x.logWrites = 0

C2_Witness ==
    /\ last.op = "send"
    /\ BothAbsent(last.transcript)
    /\ last.resp.status = 400
    /\ last.recipients # <<>>

\* C3: once the delivery loop of a send-email request is over, send_email_smtp
\* was called exactly once per listed recipient, in the order listed, whatever
\* the earlier calls did; sent_emails is the recipients whose call returned and
\* failed_emails those whose call raised, each in the order listed, and the
\* response carries the same two lists.
C3_EveryRecipientOnceInOrder ==
    \A x \in Sends :
        (x.pc = "send_log" \/ (x.pc = "done" /\ x.resp.status = 200)) =>
            /\ Len(x.attempts) = Len(x.recipients)
            /\ \A i \in 1 .. Len(x.recipients) : x.attempts[i].to = <<x.recipients[i]>>
            /\ x.sent_emails = Addresses(SelectSeq(x.attempts, LAMBDA c : c.ok))
            /\ x.failed_emails = Failures(SelectSeq(x.attempts, LAMBDA c : ~c.ok))
            /\ x.pc = "done" =>
                   /\ x.resp.sent_emails = x.sent_emails
                   /\ x.resp.failed_emails = x.failed_emails
                   /\ x.resp.has_failed_emails = (x.failed_emails # <<>>)

C3_Witness ==
    /\ last.op = "send"
    /\ last.resp.status = 200
    /\ Len(last.recipients) = 2
    /\ ~last.attempts[1].ok
    /\ last.attempts[2].ok
    /\ last.resp.sent_emails = <<last.recipients[2]>>

\* C4: the log written after the delivery loop has status sent when every
\* delivery succeeded and partial when one failed, partial with sent_count 0
\* when all of them failed; a log with status failed is written only by a
\* request whose find_one raised, before any delivery.
C4_LogStatus ==
    [][\A r \in Reqs :
          (/\ req[r].op = "send"
           /\ req'[r] = IdleReq
           /\ Len(email_logs') = Len(email_logs) + 1) =>
              LET l == email_logs'[Len(email_logs')]
                  calls == req[r].attempts
                  allOk == \A i \in 1 .. Len(calls) : calls[i].ok
                  noneOk == \A i \in 1 .. Len(calls) : ~calls[i].ok
              IN  /\ req[r].pc = "send_log" =>
                         /\ l.status = IF allOk THEN "sent" ELSE "partial"
                         /\ (noneOk /\ calls # <<>>) =>
                                (l.status = "partial" /\ l.sent_count = 0)
                  /\ l.status = "failed" =>
                         /\ req[r].pc = "send_failed_log"
                         /\ req[r].storeErr
                         /\ calls = <<>>]_vars

C4_Witness ==
    \E k \in 1 .. Len(email_logs) :
        /\ email_logs[k].status = "partial"
        /\ email_logs[k].sent_count = 0
        /\ email_logs[k].failed_count = 2

\* C5: every stored log with status sent or partial has non-negative counts
\* that add up to the number of recipients, failed_count entries in
\* failed_emails, and no failed_emails when its status is sent.
C5_LogCounts ==
    \A k \in 1 .. Len(email_logs) :
        LET l == email_logs[k]
        IN  l.status \in {"sent", "partial"} =>
                /\ l.sent_count >= 0
                /\ l.failed_count >= 0
                /\ l.sent_count + l.failed_count = Len(l.recipients)
                /\ l.failed_count = Len(l.failed_emails)
                /\ l.status = "sent" => l.failed_emails = <<>>

C5_Witness ==
    \E k \in 1 .. Len(email_logs) :
        /\ email_logs[k].status = "partial"
        /\ email_logs[k].sent_count = 1
        /\ email_logs[k].failed_count = 1

\* C6: every step keeps the logs already stored as they are and adds at most
\* one; a log is added only by a send-email request that has written none
\* before and, for a sent or partial log, has finished its delivery loop; a
\* request that reaches the log write adds exactly one log when the store
\* accepts the write, and no request ever writes twice.
C6_OneImmutableLogPerSend ==
    [][/\ Len(email_logs') >= Len(email_logs)
       /\ Len(email_logs') <= Len(email_logs) + 1
       /\ \A k \in 1 .. Len(email_logs) : email_logs'[k] = email_logs[k]
       /\ Len(email_logs') = Len(email_logs) + 1 =>
              \E r \in Reqs :
                  /\ req[r].op = "send"
                  /\ req[r].logWrites = 0
                  /\ req'[r] = IdleReq
                  /\ last'.logWrites = 1
                  /\ req[r].pc = "send_log" =>
                         Len(req[r].attempts) = Len(req[r].recipients)
       /\ \A r \in Reqs :
              (req[r].pc = "send_log" /\ req'[r] # req[r]) =>
                  /\ req'[r] = IdleReq
                  /\ last'.logWrites = 1
                  /\ ~last'.logFailed => Len(email_logs') = Len(email_logs) + 1
       /\ \A x \in Sends' : x.logWrites <= 1]_vars

C6_Witness ==
    /\ Len(email_logs) = 2
    /\ email_logs[1].transcript_id = email_logs[2].transcript_id
    /\ email_logs[1].status = "partial"
    /\ email_logs[2].status = "sent"
    /\ last.op = "delete"
    /\ last.resp.status = 200

\* C7: a send-email request whose log write after the delivery loop fails
\* returns 200 with the recipients, the subject, sent_emails and, when some
\* delivery failed, failed_emails; it has written to email_logs once and not
\* again, and has called send_email_smtp once per recipient.
C7_LogFailureIsSwallowed ==
    (last.op = "send" /\ last.logFailed /\ ~last.storeErr) =>
        /\ last.resp.status = 200
        /\ last.resp.recipients = last.recipients
        /\ last.resp.subject = last.subject
        /\ last.resp.sent_emails = Addresses(SelectSeq(last.attempts, LAMBDA c : c.ok))
        /\ last.resp.has_failed_emails = (\E i \in 1 .. Len(last.attempts) :
                                              ~last.attempts[i].ok)
        /\ last.resp.failed_emails = Failures(SelectSeq(last.attempts, LAMBDA c : ~c.ok))
        /\ last.logWrites = 1
        /\ Len(last.attempts) = Len(last.recipients)

C7_Witness ==
    /\ last.op = "send"
    /\ last.logFailed
    /\ ~last.storeErr
    /\ last.resp.status = 200
    /\ last.resp.has_failed_emails
    /\ last.resp.sent_emails # <<>>
    /\ email_logs = <<>>

\* the fields of a transcript no handler writes after its creation
Immutable(doc) ==
    <<doc.id, doc.title, doc.original_text, doc.custom_prompt, doc.created_at>>

\* C8: a step of update-summary changes at most edited_summary and updated_at
\* of its own transcript and a step of generate-summary at most
\* generated_summary and updated_at of its own, whatever ran in between; no
\* step of the two adds or removes a transcript or touches another one, and
\* no step at all changes id, title, original_text, custom_prompt or
\* created_at of a transcript.
C8_SummaryUpdatesFrame ==
    [][/\ \A t \in DOMAIN transcripts \cap DOMAIN transcripts' :
              Immutable(transcripts'[t]) = Immutable(transcripts[t])
       /\ \A r \in Reqs :
              (req[r].op \in {"update", "generate"} /\ req'[r] = IdleReq) =>
                  /\ DOMAIN transcripts' = DOMAIN transcripts
                  /\ \A t \in DOMAIN transcripts :
                         IF t # req[r].tid
                         THEN transcripts'[t] = transcripts[t]
                         ELSE IF req[r].op = "update"
                         THEN /\ transcripts'[t].generated_summary =
                                     transcripts[t].generated_summary
                              /\ last'.resp.status = 200 =>
                                     /\ transcripts'[t].edited_summary = req[r].edited
                                     /\ transcripts'[t].updated_at = Now
                         ELSE /\ transcripts'[t].edited_summary =
                                     transcripts[t].edited_summary
                              /\ last'.resp.status = 200 =>
                                     /\ transcripts'[t].generated_summary =
                                            last'.resp.summary
                                     /\ transcripts'[t].updated_at = Now]_vars

\* an update-summary and a generate-summary of one transcript, both started
\* before either wrote, have both written, next to an untouched transcript
C8_Witness ==
    /\ last.op = "update"
    /\ last.resp.status = 200
    /\ \E r \in Reqs : req[r].op = "generate" /\ req[r].tid = last.tid
    /\ last.tid \in DOMAIN transcripts
    /\ transcripts[last.tid].generated_summary = "G"
    /\ transcripts[last.tid].edited_summary = "E"
    /\ \E t \in DOMAIN transcripts : t # last.tid /\ BothAbsent(transcripts[t])

\* C9: a delete of a stored transcript removes that transcript and nothing
\* else: the other transcripts, the email logs and the suspended requests stay
\* as they are; a delete of an id that is not stored is answered 404 and
\* changes nothing; and an id that was handed out and is no longer stored
\* never comes back, whatever request was suspended when it was deleted.
C9_DeleteFrame ==
    [][/\ \A t \in 1 .. nextId - 1 :
              t \notin DOMAIN transcripts => t \notin DOMAIN transcripts'
       /\ (last' # last /\ last'.op = "delete") =>
              LET tid == last'.tid
              IN  /\ email_logs' = email_logs
                  /\ req' = req
                  /\ IF tid \in DOMAIN transcripts /\ ~last'.storeErr
                     THEN /\ last'.resp.status = 200
                          /\ DOMAIN transcripts' = DOMAIN transcripts \ {tid}
                          /\ \A t \in DOMAIN transcripts' :
                                 transcripts'[t] = transcripts[t]
                     ELSE /\ transcripts' = transcripts
                          /\ ~last'.storeErr => last'.resp.status = 404]_vars

\* a send-email found its transcript, the transcript was deleted while the
\* request was suspended, and its log is stored next to another transcript
C9_Witness ==
    /\ last.op = "send"
    /\ last.resp.status = 200
    /\ last.tid \notin DOMAIN transcripts
    /\ DOMAIN transcripts # {}
    /\ Len(email_logs) = 1
    /\ email_logs[1].transcript_id = last.tid

\* C10: the summary in the body of every message a send-email request sends
\* is the edited_summary of the transcript it found whenever that is present,
\* the empty text included, and its generated_summary otherwise.
C10_EditedSummaryWhenPresent ==
    \A x \in Sends :
        \A i \in 1 .. Len(x.attempts) :
            x.attempts[i].body.summary =
                IF x.transcript.edited_summary # None
                THEN x.transcript.edited_summary
                ELSE x.transcript.generated_summary


====
